---- MODULE Spec2Model ----
(***************************************************************************)
(* The code cells of guides/ipynb/training_keras_models_on_cloud, executed *)
(* top to bottom by two interpreters that share one Cloud Storage bucket:  *)
(*   "local"  the user's notebook kernel, where tfc.remote() is False;     *)
(*   "cloud"  the job that tfc.run() submits, which executes the same      *)
(*            notebook with tfc.remote() True.                             *)
(* Paths are sequences of components (the text between the separators);    *)
(* a stored object is a record naming its kind, its writer and the number  *)
(* of epochs the written model had been trained for.                       *)
(***************************************************************************)
EXTENDS Naturals, Sequences, FiniteSets, TLC

VARIABLES
    gcp_bucket,        \* the notebook's bucket name (cell 11)
    pc,                \* pc[p]: the cell process p executes next
    checkpoint_path,   \* Python variables of each interpreter (cells 11, 17)
    tensorboard_path,
    save_path,
    callbacks,
    epochs,
    batch_size,
    model,             \* model[p]: the weights held by the variable `model`
    fitCall,           \* the arguments model.fit was called with
    epoch,             \* epochs completed by the running fit()
    stop_training,     \* model.stop_training
    es,                \* EarlyStopping's wait and best
    plateau,           \* observer of a running fit(): epochs without improvement
    storage,           \* the bucket: path -> object
    saveCount,         \* number of model.save calls of each execution
    savedModel,        \* what model.save wrote
    fitReturned,       \* model.fit has returned
    loadResult,        \* "none" | "ok" | "error": outcome of load_model
    loaded,            \* the object load_model returned
    uploadLogdir       \* --logdir of the executed `tensorboard dev upload`

vars == <<gcp_bucket, pc, checkpoint_path, tensorboard_path, save_path,
          callbacks, epochs, batch_size, model, fitCall, epoch,
          stop_training, es, plateau, storage, saveCount, savedModel,
          fitReturned, loadResult, loaded, uploadLogdir>>

---------------------------------------------------------------------------
(* Bounds of the model *)

\* validation losses an epoch can measure: 1..MaxLoss
MaxLoss == 3

\* datetime.now() is one of the seconds 0..MaxClock of one minute
MaxClock == 1

(* Constants of the program *)

RemoteEpochs == 100
RemoteBatchSize == 128
LocalEpochs == 5
LocalBatchSize == 64
Patience == 3

Procs == {"local", "cloud"}
Losses == 1..MaxLoss
Inf == MaxLoss + 1
Buckets == {"keras-examples", "keras-examples-jonah"}

\* tfc.remote(): True in the job run() submitted, False in the user's kernel
Remote(p) == p = "cloud"

---------------------------------------------------------------------------
(* Values *)

PyNone == [isNone |-> TRUE, list |-> <<>>]
PyList(s) == [isNone |-> FALSE, list |-> s]

NoPath == <<>>
NoObject == [kind |-> "none", by |-> "nobody", epochs |-> 0]
Weights(p, n) == [kind |-> "model", by |-> p, epochs |-> n]
Events(p, n) == [kind |-> "events", by |-> p, epochs |-> n]

NoCall == [called |-> FALSE, epochs |-> 0, batch_size |-> 0,
           callbacks |-> PyNone, validation |-> FALSE]

Min(a, b) == IF a < b THEN a ELSE b

IsPrefix(s, t) == Len(s) <= Len(t) /\ \A i \in 1..Len(s) : s[i] = t[i]

\* os.path.join of relative components: the components in order, which the
\* string form separates by "/"
OsPathJoin(parts) == parts

Pad2(n) == IF n < 10 THEN "0" \o ToString(n) ELSE ToString(n)

\* datetime.datetime.now().strftime("%Y%m%d-%H%M%S") at second t
Strftime(t) == "20200811-1200" \o Pad2(t)

\* filepath.format(epoch=...) of ModelCheckpoint: the placeholder {epoch}
\* of a component is replaced by the decimal epoch number
FormatFilepathNoEpoch(path, n) == path

FormatFilepath(path, n) ==
    [i \in 1..Len(path) |->
        IF path[i] = "save_at_{epoch}" THEN "save_at_" \o ToString(n)
        ELSE path[i]]

Put(s, path, obj) ==
    [x \in (DOMAIN s) \cup {path} |-> IF x = path THEN obj ELSE s[x]]

---------------------------------------------------------------------------
(* keras.callbacks.EarlyStopping(monitor="val_loss", patience=3) *)

\* on_train_begin: wait = 0, best = inf (mode "min")
ESInit == [wait |-> 0, best |-> Inf]

\* on_epoch_end: logs.get("val_loss") is None when fit() evaluated no
\* validation data, and the callback then returns without counting
ESUpdate(s, hasVal, current) ==
    IF ~hasVal THEN s
    ELSE IF current < s.best THEN [wait |-> 0, best |-> current]
    ELSE [wait |-> s.wait + 1, best |-> s.best]

ESStops(s, hasVal, current) ==
    hasVal /\ ~(current < s.best) /\ s.wait + 1 >= Patience

\* Observer of the validation loss itself, whether or not fit() logs it:
\* the number of consecutive epochs without improvement, counted to Patience
PlateauUpdate(g, v) ==
    IF v < g.best THEN [wait |-> 0, best |-> v]
    ELSE [wait |-> Min(g.wait + 1, Patience), best |-> g.best]

---------------------------------------------------------------------------
(* The cells *)

TheCallbacks == PyList(<<"TensorBoard", "ModelCheckpoint", "EarlyStopping">>)

HasCallback(cbs, name) ==
    ~cbs.isNone /\ \E i \in 1..Len(cbs.list) : cbs.list[i] = name

Init ==
    /\ gcp_bucket \in Buckets
    /\ pc = [p \in Procs |-> IF Remote(p) THEN "idle" ELSE "c11"]
    /\ checkpoint_path = [p \in Procs |-> NoPath]
    /\ tensorboard_path = [p \in Procs |-> NoPath]
    /\ save_path = [p \in Procs |-> NoPath]
    /\ callbacks = [p \in Procs |-> PyNone]
    /\ epochs = [p \in Procs |-> 0]
    /\ batch_size = [p \in Procs |-> 0]
    /\ model = [p \in Procs |-> NoObject]
    /\ fitCall = [p \in Procs |-> NoCall]
    /\ epoch = [p \in Procs |-> 0]
    /\ stop_training = [p \in Procs |-> FALSE]
    /\ es = [p \in Procs |-> ESInit]
    /\ plateau = [p \in Procs |-> ESInit]
    /\ storage = <<>>
    /\ saveCount = [p \in Procs |-> 0]
    /\ savedModel = [p \in Procs |-> NoObject]
    /\ fitReturned = [p \in Procs |-> FALSE]
    /\ loadResult = [p \in Procs |-> "none"]
    /\ loaded = [p \in Procs |-> NoObject]
    /\ uploadLogdir = [p \in Procs |-> NoPath]

\* cell 11: the paths, the callbacks, model = create_model()
Cell11(p) ==
    /\ pc[p] = "c11"
    /\ \E t \in 0..MaxClock :
          tensorboard_path' = [tensorboard_path EXCEPT ![p] =
              OsPathJoin(<<"gs://", gcp_bucket, "logs", Strftime(t)>>)]
    /\ checkpoint_path' = [checkpoint_path EXCEPT ![p] =
          OsPathJoin(<<"gs://", gcp_bucket, "mnist_example", "save_at_{epoch}">>)]
    /\ callbacks' = [callbacks EXCEPT ![p] = TheCallbacks]
    /\ model' = [model EXCEPT ![p] = Weights(p, 0)]
    /\ pc' = [pc EXCEPT ![p] = "c13"]
    /\ UNCHANGED <<gcp_bucket, save_path, epochs, batch_size, fitCall, epoch,
                   stop_training, es, plateau, storage, saveCount, savedModel,
                   fitReturned, loadResult, loaded, uploadLogdir>>

\* cell 13: keras.datasets.mnist.load_data()
Cell13(p) ==
    /\ pc[p] = "c13"
    /\ pc' = [pc EXCEPT ![p] = "c15"]
    /\ UNCHANGED <<gcp_bucket, checkpoint_path, tensorboard_path, save_path,
                   callbacks, epochs, batch_size, model, fitCall, epoch,
                   stop_training, es, plateau, storage, saveCount, savedModel,
                   fitReturned, loadResult, loaded, uploadLogdir>>

\* cell 15, the branch on tfc.remote()
FitParamsSwapped(remote, cbs) ==
    IF remote
    THEN [epochs |-> LocalEpochs, batch_size |-> LocalBatchSize,
          callbacks |-> PyNone]
    ELSE [epochs |-> RemoteEpochs, batch_size |-> RemoteBatchSize,
          callbacks |-> cbs]

FitParams(remote, cbs) ==
    IF remote
    THEN [epochs |-> RemoteEpochs, batch_size |-> RemoteBatchSize,
          callbacks |-> cbs]
    ELSE [epochs |-> LocalEpochs, batch_size |-> LocalBatchSize,
          callbacks |-> PyNone]

\* cell 15: the branch, then the call of model.fit, which starts training
\* (on_train_begin of the callbacks); no validation_split or
\* validation_data is passed
Cell15(p) ==
    /\ pc[p] = "c15"
    /\ LET a == FitParams(Remote(p), callbacks[p]) IN
          /\ epochs' = [epochs EXCEPT ![p] = a.epochs]
          /\ batch_size' = [batch_size EXCEPT ![p] = a.batch_size]
          /\ callbacks' = [callbacks EXCEPT ![p] = a.callbacks]
          /\ fitCall' = [fitCall EXCEPT ![p] =
                [called |-> TRUE, epochs |-> a.epochs,
                 batch_size |-> a.batch_size, callbacks |-> a.callbacks,
                 validation |-> FALSE]]
    /\ epoch' = [epoch EXCEPT ![p] = 0]
    /\ stop_training' = [stop_training EXCEPT ![p] = FALSE]
    /\ es' = [es EXCEPT ![p] = ESInit]
    /\ pc' = [pc EXCEPT ![p] = "fit"]
    /\ UNCHANGED <<gcp_bucket, checkpoint_path, tensorboard_path, save_path,
                   model, plateau, storage, saveCount, savedModel,
                   fitReturned, loadResult, loaded, uploadLogdir>>

\* one epoch of model.fit: the weights are trained, then on_epoch_end of
\* each callback passed, in the order of the list
FitEpoch(p) ==
    /\ pc[p] = "fit"
    /\ epoch[p] < fitCall[p].epochs
    /\ ~stop_training[p]
    /\ \E v \in Losses :
        LET n == epoch[p] + 1
            w == Weights(p, n)
            cbs == fitCall[p].callbacks
            hasVal == fitCall[p].validation
            s1 == IF HasCallback(cbs, "TensorBoard")
                  THEN Put(storage, tensorboard_path[p] \o <<"train">>,
                           Events(p, n))
                  ELSE storage
            s2 == IF HasCallback(cbs, "ModelCheckpoint")
                  THEN Put(s1, FormatFilepath(checkpoint_path[p], n), w)
                  ELSE s1
            early == HasCallback(cbs, "EarlyStopping")
        IN  /\ model' = [model EXCEPT ![p] = w]
            /\ epoch' = [epoch EXCEPT ![p] = n]
            /\ storage' = s2
            /\ es' = [es EXCEPT ![p] =
                  IF early THEN ESUpdate(es[p], hasVal, v) ELSE es[p]]
            /\ stop_training' = [stop_training EXCEPT ![p] =
                  early /\ ESStops(es[p], hasVal, v)]
            /\ plateau' = [plateau EXCEPT ![p] = PlateauUpdate(plateau[p], v)]
    /\ UNCHANGED <<gcp_bucket, pc, checkpoint_path, tensorboard_path,
                   save_path, callbacks, epochs, batch_size, fitCall,
                   saveCount, savedModel, fitReturned, loadResult, loaded,
                   uploadLogdir>>

\* model.fit returns: all epochs done, or a callback set stop_training
FitReturn(p) ==
    /\ pc[p] = "fit"
    /\ epoch[p] = fitCall[p].epochs \/ stop_training[p]
    /\ fitReturned' = [fitReturned EXCEPT ![p] = TRUE]
    /\ plateau' = [plateau EXCEPT ![p] = ESInit]   \* nothing left to observe
    /\ pc' = [pc EXCEPT ![p] = "c17"]
    /\ UNCHANGED <<gcp_bucket, checkpoint_path, tensorboard_path, save_path,
                   callbacks, epochs, batch_size, model, fitCall, epoch,
                   stop_training, es, storage, saveCount, savedModel,
                   loadResult, loaded, uploadLogdir>>

\* cell 17, the condition of model.save
SaveGuardAlways(p) == TRUE

SaveGuard(p) == Remote(p)

\* cell 17: save_path, and model.save(save_path) if tfc.remote()
Cell17(p) ==
    /\ pc[p] = "c17"
    /\ LET path == OsPathJoin(<<"gs://", gcp_bucket, "mnist_example">>) IN
          /\ save_path' = [save_path EXCEPT ![p] = path]
          /\ IF SaveGuard(p)
             THEN /\ storage' = Put(storage, path, model[p])
                  /\ saveCount' = [saveCount EXCEPT ![p] = @ + 1]
                  /\ savedModel' = [savedModel EXCEPT ![p] = model[p]]
             ELSE UNCHANGED <<storage, saveCount, savedModel>>
    /\ pc' = [pc EXCEPT ![p] = "c19"]
    /\ UNCHANGED <<gcp_bucket, checkpoint_path, tensorboard_path, callbacks,
                   epochs, batch_size, model, fitCall, epoch, stop_training,
                   es, plateau, fitReturned, loadResult, loaded, uploadLogdir>>

\* cell 19: tfc.run(docker_image_bucket_name=gcp_bucket). Called locally it
\* submits the job that runs this notebook on the cloud and returns (no
\* stream_logs); inside that job it returns at once
Cell19(p) ==
    /\ pc[p] = "c19"
    /\ pc' = [q \in Procs |->
                IF q = p THEN "c21"
                ELSE IF ~Remote(p) /\ Remote(q) /\ pc[q] = "idle" THEN "c11"
                ELSE pc[q]]
    /\ UNCHANGED <<gcp_bucket, checkpoint_path, tensorboard_path, save_path,
                   callbacks, epochs, batch_size, model, fitCall, epoch,
                   stop_training, es, plateau, storage, saveCount, savedModel,
                   fitReturned, loadResult, loaded, uploadLogdir>>

\* cell 21, the path load_model reads
LoadPathCheckpoint(p) == FormatFilepath(checkpoint_path[p], 1)

LoadPath(p) == save_path[p]

\* cell 21: model = keras.models.load_model(save_path); it raises when no
\* model is stored at the path, which ends the execution
Cell21(p) ==
    /\ pc[p] = "c21"
    /\ LET path == LoadPath(p) IN
          IF path \in DOMAIN storage
          THEN /\ model' = [model EXCEPT ![p] = storage[path]]
               /\ loaded' = [loaded EXCEPT ![p] = storage[path]]
               /\ loadResult' = [loadResult EXCEPT ![p] = "ok"]
               /\ pc' = [pc EXCEPT ![p] = "c22"]
          ELSE /\ loadResult' = [loadResult EXCEPT ![p] = "error"]
               /\ pc' = [pc EXCEPT ![p] = "error"]
               /\ UNCHANGED <<model, loaded>>
    /\ UNCHANGED <<gcp_bucket, checkpoint_path, tensorboard_path, save_path,
                   callbacks, epochs, batch_size, fitCall, epoch,
                   stop_training, es, plateau, storage, saveCount, savedModel,
                   fitReturned, uploadLogdir>>

\* cell 22, the literal "gs://keras-examples-jonah/logs/fit"
UploadLogdirArg == <<"gs://", "keras-examples-jonah", "logs", "fit">>

\* cell 22: !tensorboard dev upload --logdir ... --name "Guide MNIST"
Cell22(p) ==
    /\ pc[p] = "c22"
    /\ uploadLogdir' = [uploadLogdir EXCEPT ![p] = UploadLogdirArg]
    /\ pc' = [pc EXCEPT ![p] = "done"]
    /\ UNCHANGED <<gcp_bucket, checkpoint_path, tensorboard_path, save_path,
                   callbacks, epochs, batch_size, model, fitCall, epoch,
                   stop_training, es, plateau, storage, saveCount, savedModel,
                   fitReturned, loadResult, loaded>>

Next ==
    \E p \in Procs :
        \/ Cell11(p)
        \/ Cell13(p)
        \/ Cell15(p)
        \/ FitEpoch(p)
        \/ FitReturn(p)
        \/ Cell17(p)
        \/ Cell19(p)
        \/ Cell21(p)
        \/ Cell22(p)

Spec == Init /\ [][Next]_vars

---------------------------------------------------------------------------
(* The claims *)

\* C1: the value of remote() alone selects the fit() parameters: a remote
\* execution calls model.fit with epochs=100, batch_size=128 and the three
\* callbacks, a local one with epochs=5, batch_size=64 and callbacks=None,
\* and no other combination reaches fit().
C1_FitParamsByRemote ==
    \A p \in Procs :
        fitCall[p].called =>
            IF Remote(p)
            THEN /\ fitCall[p].epochs = 100
                 /\ fitCall[p].batch_size = 128
                 /\ fitCall[p].callbacks =
                       PyList(<<"TensorBoard", "ModelCheckpoint",
                                "EarlyStopping">>)
            ELSE /\ fitCall[p].epochs = 5
                 /\ fitCall[p].batch_size = 64
                 /\ fitCall[p].callbacks = PyNone

C1_Witness == fitCall["local"].called /\ fitCall["cloud"].called

\* C2 (as claimed): in a remote run, once val_loss has not improved for 3
\* consecutive epochs, EarlyStopping has stopped the training, before
\* epoch 100.
C2_EarlyStoppingStops ==
    \A p \in Procs :
        (Remote(p) /\ fitCall[p].called /\ plateau[p].wait >= 3) =>
            (stop_training[p] /\ epoch[p] < 100)

\* C3: during a remote run, after every completed epoch k the checkpoint of
\* epoch k is stored at gs://<gcp_bucket>/mnist_example/save_at_k, the
\* epochs' paths differ, and no later epoch has overwritten it.
C3_CheckpointPerEpoch ==
    \A p \in Procs :
        (Remote(p) /\ fitCall[p].called) =>
            LET at(k) == <<"gs://", gcp_bucket, "mnist_example",
                           "save_at_" \o ToString(k)>>
            IN  /\ \A k \in 1..epoch[p] :
                      /\ at(k) \in DOMAIN storage
                      /\ storage[at(k)] = Weights(p, k)
                /\ Cardinality({at(k) : k \in 1..epoch[p]}) = epoch[p]

C3_Witness ==
    /\ epoch["cloud"] = 100
    /\ saveCount["cloud"] = 1
    /\ <<"gs://", gcp_bucket, "mnist_example", "save_at_1">> \in DOMAIN storage

\* C4: model.save(save_path) is executed only when tfc.remote() is true,
\* only after model.fit has returned, at most once per execution, and never
\* before or during training.
C4_SaveOnlyRemoteAfterFit ==
    \A p \in Procs :
        /\ saveCount[p] <= 1
        /\ saveCount[p] >= 1 => (Remote(p) /\ fitReturned[p])
        /\ pc[p] \in {"idle", "c11", "c13", "c15", "fit", "c17"} =>
              saveCount[p] = 0

C4_Witness == saveCount["cloud"] = 1 /\ pc["local"] \in {"done", "error"}

\* C5 (as claimed): whenever load_model(save_path) is executed, model.save
\* has previously written a model to that save_path, and the model loaded
\* is the one saved.
C5_LoadFindsSavedModel ==
    \A p \in Procs :
        loadResult[p] # "none" =>
            \E q \in Procs :
                /\ saveCount[q] >= 1
                /\ save_path[q] = save_path[p]
                /\ loadResult[p] = "ok"
                /\ loaded[p] = savedModel[q]

\* C5 (amended): a load_model(save_path) executed after a model.save to
\* that save_path has completed succeeds and returns the model that was
\* saved; and a load that succeeded returned a model that model.save wrote
\* to that path.
C5_LoadAfterSaveRoundTrip ==
    /\ [](\A p \in Procs :
            loadResult[p] = "ok" =>
                \E q \in Procs :
                    /\ saveCount[q] >= 1
                    /\ save_path[q] = save_path[p]
                    /\ loaded[p] = savedModel[q])
    /\ [][\A p \in Procs :
            (/\ pc[p] = "c21"
             /\ pc'[p] # "c21"
             /\ \E q \in Procs :
                   saveCount[q] >= 1 /\ save_path[q] = save_path[p]) =>
                (/\ loadResult'[p] = "ok"
                 /\ \E q \in Procs :
                       saveCount[q] >= 1 /\ loaded'[p] = savedModel[q])]_vars

C5_Witness ==
    /\ loadResult["local"] = "ok"
    /\ loaded["local"] = Weights("cloud", 100)

\* C6 (as claimed): the --logdir of `tensorboard dev upload` is the
\* tensorboard_path a training run's TensorBoard callback wrote to, or a
\* parent directory of it in the same bucket.
C6_UploadReadsCallbackLogs ==
    \A p \in Procs :
        uploadLogdir[p] # NoPath =>
            \E q \in Procs :
                /\ HasCallback(fitCall[q].callbacks, "TensorBoard")
                /\ Len(uploadLogdir[p]) >= 2
                /\ IsPrefix(uploadLogdir[p], tensorboard_path[q])

====
